---- MODULE Spec2Model ----
(***************************************************************************)
(* Memory chunk indexing and hybrid retrieval of wanxiao_demo.             *)
(*                                                                         *)
(* Two backends are modelled side by side:                                 *)
(*   - MemoryStore (src/src/memory.py): SQLite tables chunks, chunks_vec,  *)
(*     chunks_fts and embedding_cache behind one connection;               *)
(*   - MilvusMemSearch (src/src/milvus_mem_search.py): one Milvus          *)
(*     collection fed from the files of the daily directory.               *)
(*                                                                         *)
(* A text is the list of its lines (text.split("\n")), a line and a chunk  *)
(* content are lists of one-character strings.                             *)
(***************************************************************************)
EXTENDS Naturals, Integers, Sequences, FiniteSets, Bags, TLC

---------------------------------------------------------------------------
(* Strings as character sequences                                          *)

NL == "\n"

\* str.strip() removes these at both ends
IsSpace(ch) == ch \in {" ", NL}

RECURSIVE LStrip(_)
LStrip(s) ==
    IF s = <<>> THEN <<>>
    ELSE IF IsSpace(Head(s)) THEN LStrip(Tail(s)) ELSE s

RECURSIVE RStrip(_)
RStrip(s) ==
    IF s = <<>> THEN <<>>
    ELSE IF IsSpace(s[Len(s)]) THEN RStrip(SubSeq(s, 1, Len(s) - 1)) ELSE s

\* str.strip()
Strip(s) == RStrip(LStrip(s))

\* str.startswith(prefix)
StartsWith(s, prefix) ==
    /\ Len(s) >= Len(prefix)
    /\ SubSeq(s, 1, Len(prefix)) = prefix

\* "\n".join(lines)
RECURSIVE Join(_)
Join(ls) ==
    IF ls = <<>> THEN <<>>
    ELSE IF Len(ls) = 1 THEN ls[1]
    ELSE ls[1] \o <<NL>> \o Join(Tail(ls))

\* line.strip().startswith("## ")
IsHeaderLine(line) == StartsWith(Strip(line), <<"#", "#", " ">>)

\* index (0-based, as enumerate gives it) of the first header line, -1 if none
RECURSIVE FirstHeaderFrom(_, _)
FirstHeaderFrom(lines, idx) ==
    IF idx >= Len(lines) THEN -1
    ELSE IF IsHeaderLine(lines[idx + 1]) THEN idx
    ELSE FirstHeaderFrom(lines, idx + 1)

\* a block without the header context
BlockTextNoContext(header_context, current_lines) == Strip(Join(current_lines))

\* header_context + "\n\n" + "\n".join(current_lines), stripped
BlockText(header_context, current_lines) ==
    Strip(header_context \o <<NL, NL>> \o Join(current_lines))

---------------------------------------------------------------------------
(* MilvusMemSearch: chunks                                                 *)

\* the characters of the file names the daily directory may hold, and of the
\* source paths a MemoryChunk is built with directly
NameChars ==
    ( "2026-02-09.md" :> <<"2","0","2","6","-","0","2","-","0","9",".","m","d">> ) @@
    ( "2026-02-10.md" :> <<"2","0","2","6","-","0","2","-","1","0",".","m","d">> ) @@
    ( "2026-2-9.md"   :> <<"2","0","2","6","-","2","-","9",".","m","d">> ) @@
    ( "note.md"       :> <<"n","o","t","e",".","m","d">> ) @@
    ( "m1"            :> <<"m","1">> ) @@
    ( "m11"           :> <<"m","1","1">> ) @@
    ( "m1:1"          :> <<"m","1",":","1">> )

\* Path.stem: the name without its last suffix
RECURSIVE LastDot(_, _)
LastDot(s, i) ==
    IF i = 0 THEN 0 ELSE IF s[i] = "." THEN i ELSE LastDot(s, i - 1)

Stem(name) ==
    LET s == NameChars[name]
        d == LastDot(s, Len(s))
    IN  IF d <= 1 THEN s ELSE SubSeq(s, 1, d - 1)

\* str(n) of a line number n >= 0, as an f-string formats it
RECURSIVE Digits(_)
Digits(n) ==
    LET d == <<"0","1","2","3","4","5","6","7","8","9">>
    IN  IF n < 10 THEN <<d[n + 1]>> ELSE Digits(n \div 10) \o <<d[(n % 10) + 1]>>

\* the number of characters of a sha256 hexdigest
Sha256HexLen == 64

\* the slice [:64] of chunk_id
ChunkIdLen == 64

\* hashlib.sha256(data.encode("utf-8")).hexdigest(): Sha256HexLen characters
\* that stand for the data (collisions aside)
Sha256Hex(data) == [alg |-> "sha256", of |-> data, len |-> Sha256HexLen]

\* MemoryChunk.chunk_hash
chunk_hash(content) == Sha256Hex(content)

\* the string base without its ":" separators
ChunkIdBaseNoSeparator(chunk) ==
    [head |-> NameChars[chunk.source_path] \o Digits(chunk.start_line)
              \o Digits(chunk.end_line),
     tail |-> chunk_hash(chunk.content)]

\* f"{source_path}:{start_line}:{end_line}:{chunk_hash}": the characters up to
\* the last ":" and, after them, the fixed-width hexdigest
ChunkIdBase(chunk) ==
    [head |-> NameChars[chunk.source_path] \o <<":">> \o Digits(chunk.start_line)
              \o <<":">> \o Digits(chunk.end_line) \o <<":">>,
     tail |-> chunk_hash(chunk.content)]

\* MemoryChunk.chunk_id: hexdigest()[:64] of the sha256 of base
chunk_id(chunk) ==
    LET digest == Sha256Hex(ChunkIdBase(chunk))
    IN  [digest EXCEPT !.len = IF digest.len < ChunkIdLen THEN digest.len ELSE ChunkIdLen]

\* a MemoryChunk whose line numbers are 0-based
MemoryChunkZeroBased(path, date, start, end, content) ==
    [source_path |-> path, date |-> date, start_line |-> start - 1,
     end_line |-> end - 1, content |-> content]

MemoryChunk(path, date, start, end, content) ==
    [source_path |-> path, date |-> date, start_line |-> start,
     end_line |-> end, content |-> content]

\* the loop of _split_daily_markdown over lines[i], i = body_start_idx..total-1
RECURSIVE MilvusSplitLoop(_, _, _, _, _, _, _)
MilvusSplitLoop(path, lines, header_context, i, current_lines, current_start, chunks) ==
    IF i >= Len(lines) THEN
        IF current_lines # <<>> THEN
            LET block == BlockText(header_context, current_lines)
            IN  IF block # <<>>
                THEN Append(chunks,
                            MemoryChunk(path, Stem(path), current_start, Len(lines), block))
                ELSE chunks
        ELSE chunks
    ELSE
        LET line == lines[i + 1]
        IN  IF IsHeaderLine(line) /\ current_lines # <<>> THEN
                LET block == BlockText(header_context, current_lines)
                    closed == IF block # <<>>
                              THEN Append(chunks,
                                          MemoryChunk(path, Stem(path), current_start, i, block))
                              ELSE chunks
                IN  MilvusSplitLoop(path, lines, header_context, i + 1,
                                    <<line>>, i + 1, closed)
            ELSE
                MilvusSplitLoop(path, lines, header_context, i + 1,
                                Append(current_lines, line), current_start, chunks)

\* a chunker that never splits: the whole file as one chunk
_split_daily_markdown_whole_file(path, lines) ==
    IF Strip(Join(lines)) = <<>> THEN <<>>
    ELSE << MemoryChunk(path, Stem(path), 1, Len(lines), Strip(Join(lines))) >>

\* a chunker that gives no chunk to a file without header line
_split_daily_markdown_headers_only(path, lines) ==
    IF FirstHeaderFrom(lines, 0) = -1 THEN <<>>
    ELSE MilvusSplitLoop(path, lines,
                         Strip(Join(SubSeq(lines, 1, FirstHeaderFrom(lines, 0)))),
                         FirstHeaderFrom(lines, 0), <<>>, FirstHeaderFrom(lines, 0) + 1, <<>>)

\* MilvusMemSearch._split_daily_markdown(file_path, text)
_split_daily_markdown(path, lines) ==
    IF Len(lines) = 0 THEN <<>>
    ELSE
        LET idx == FirstHeaderFrom(lines, 0)
        IN  IF idx = -1 THEN
                LET content == Strip(Join(lines))
                IN  IF content = <<>> THEN <<>>
                    ELSE << MemoryChunk(path, Stem(path), 1, Len(lines), content) >>
            ELSE
                MilvusSplitLoop(path, lines, Strip(Join(SubSeq(lines, 1, idx))),
                                idx, <<>>, idx + 1, <<>>)

---------------------------------------------------------------------------
(* MemoryStore: chunks                                                     *)

\* the loop of _split_text_sliding_window
RECURSIVE SqliteSplitLoop(_, _, _, _, _, _)
SqliteSplitLoop(lines, header_context, i, current_chunk_lines, current_chunk_start, chunks) ==
    IF i >= Len(lines) THEN
        IF current_chunk_lines # <<>>
        THEN Append(chunks, [content |-> BlockText(header_context, current_chunk_lines),
                             start |-> current_chunk_start, end |-> Len(lines)])
        ELSE chunks
    ELSE
        LET line == lines[i + 1]
        IN  IF IsHeaderLine(line) /\ current_chunk_lines # <<>> THEN
                SqliteSplitLoop(lines, header_context, i + 1, <<line>>, i + 1,
                    Append(chunks, [content |-> BlockText(header_context, current_chunk_lines),
                                    start |-> current_chunk_start, end |-> i]))
            ELSE
                SqliteSplitLoop(lines, header_context, i + 1,
                                Append(current_chunk_lines, line), current_chunk_start, chunks)

\* MemoryStore._split_text_sliding_window(text)
_split_text_sliding_window(lines) ==
    IF Len(lines) = 0 THEN <<>>
    ELSE
        LET idx == FirstHeaderFrom(lines, 0)
        IN  IF idx = -1 THEN
                << [content |-> Join(lines), start |-> 1, end |-> Len(lines)] >>
            ELSE
                SqliteSplitLoop(lines, Strip(Join(SubSeq(lines, 1, idx))),
                                idx, <<>>, idx + 1, <<>>)

---------------------------------------------------------------------------
(* Inputs                                                                  *)

\* file contents: two blocks, one block, no header, blank
TextTwoBlocks == << <<"#"," ","d">>, <<"#","#"," ","a">>, <<"x">>, <<"#","#"," ","b">> >>
TextOneBlock  == << <<"#"," ","d">>, <<"#","#"," ","a">>, <<"x">> >>
TextNoHeader  == << <<"x">> >>
TextBlank     == << <<" ">> >>
\* a header block without body: no chunk in common with TextTwoBlocks
TextHeaderOnly == << <<"#"," ","d">>, <<"#","#"," ","a">> >>

Texts == {TextTwoBlocks, TextOneBlock, TextNoHeader, TextBlank}

\* the names the files of the daily directory take
DirNames == {"2026-02-09.md", "2026-02-10.md", "note.md"}

\* contents the environment writes under a name
TextsFor(name) ==
    IF name \in {"2026-02-09.md", "2026-02-10.md"}
    THEN {TextTwoBlocks, TextOneBlock, TextBlank, TextHeaderOnly}
    ELSE {TextNoHeader}

\* paths and contents handed to MemoryStore.process_file
SqlitePaths == {"2026-02-09.md", "2026-02-10.md"}
SqliteTexts == {TextTwoBlocks, TextNoHeader, TextBlank}

\* query texts
Queries == { <<"x">> }

\* search(query, top_k = 5) and search(query, limit = 5)
DefaultTopK == 5

\* the top_k / limit a search is called with
TopKs == {1, DefaultTopK}

\* largest row id the chunks table hands out
MaxRowId == 3

\* index_file / process_file calls that end in an exception
MaxAborts == 1

AllCallers == {1, 2}

\* the file the concurrent callers work on
ConcNames == {"2026-02-09.md"}
ConcTexts == {TextTwoBlocks, TextHeaderOnly}

VARIABLES
    variant,    \* "sqlite": MemoryStore, "milvus": MilvusMemSearch
    files,      \* daily directory: name -> text, for the names that exist
    coll,       \* Milvus collection: bag of rows
    db,         \* SQLite database as the connection sees it
    disk,       \* SQLite database as committed
    pc,         \* caller -> position in its operation
    loc,        \* caller -> locals of its operation
    sent,       \* texts handed to the embedding provider in the last step
    lastIdx,    \* path -> outcome and text of its last index_file / process_file
    raced,      \* path -> texts of the index_file calls that overlapped on it
    aborts,     \* index_file / process_file calls that ended in an exception
    snap        \* collection as the last completed rebuild left it

vars == <<variant, files, coll, db, disk, pc, loc, sent, lastIdx, raced, aborts, snap>>
mvVars == <<files, coll, raced, snap>>
sqVars == <<db, disk>>

---------------------------------------------------------------------------
(* MilvusMemSearch                                                         *)

\* SentenceTransformer.encode(text, normalize_embeddings=True)
Encode(content) == <<"enc", content>>

\* one row of index_file's `rows`
Row(chunk, vector) ==
    [id |-> chunk_id(chunk), source_path |-> chunk.source_path, date |-> chunk.date,
     start_line |-> chunk.start_line, end_line |-> chunk.end_line,
     chunk_hash |-> chunk_hash(chunk.content), content |-> chunk.content,
     vector |-> vector]

RECURSIVE SeqToBag(_)
SeqToBag(s) == IF s = <<>> THEN EmptyBag ELSE SetToBag({Head(s)}) (+) SeqToBag(Tail(s))

\* rows = [...zip(chunks, vectors)]
Rows(chunks, vectors) == [i \in 1..Len(chunks) |-> Row(chunks[i], vectors[i])]

\* the rows a complete index_file of `text` under `name` inserts
RowsOf(name, text) ==
    LET chunks == _split_daily_markdown(name, text)
    IN  SeqToBag(Rows(chunks, [i \in 1..Len(chunks) |-> Encode(chunks[i].content)]))

\* rows of the collection with this source_path
PathRows(c, source_path) ==
    [r \in {q \in DOMAIN c : q.source_path = source_path} |-> c[r]]

\* a filter that matches no row
_delete_by_source_path_no_match(c, source_path) == c

\* a delete whose filter matches every row
_delete_by_source_path_every_row(c, source_path) == EmptyBag

\* client.delete(filter='source_path == "<source_path>"')
_delete_by_source_path(c, source_path) ==
    [r \in {q \in DOMAIN c : q.source_path # source_path} |-> c[r]]

\* client.insert(data=rows), a row with the id of a stored row added beside it
Insert(c, rows) == c (+) SeqToBag(rows)

\* client.insert(data=rows), a row with the id of a stored row taking its place
InsertReplacing(c, rows) ==
    LET ids == {rows[i].id : i \in DOMAIN rows}
    IN  [r \in {q \in DOMAIN c : q.id \notin ids} |-> c[r]] (+) SeqToBag(rows)

\* the collection after client.insert: the primary key is not declared unique
\* to the client, and what the engine does with a repeated id is its choice
InsertOutcomes(c, rows) == {Insert(c, rows), InsertReplacing(c, rows)}

\* a rebuild that keeps the collection it finds
drop_collection_skipped(c) == c

\* rebuild: drop_collection, then _ensure_collection creates it empty
drop_collection(c) == EmptyBag

IsDigit(ch) == ch \in {"0","1","2","3","4","5","6","7","8","9"}

\* a pattern that fixes the year and the suffix only: ^\d{4}-.*\.md$
DAILY_FILE_PATTERN_year_only(name) ==
    LET s == NameChars[name]
    IN  /\ Len(s) >= 8
        /\ \A i \in 1..4 : IsDigit(s[i])
        /\ s[5] = "-"
        /\ SubSeq(s, Len(s) - 2, Len(s)) = <<".", "m", "d">>

\* DAILY_FILE_PATTERN = ^\d{4}-\d{2}-\d{2}\.md$
DAILY_FILE_PATTERN(name) ==
    LET s == NameChars[name]
    IN  /\ Len(s) = 13
        /\ \A i \in {1, 2, 3, 4, 6, 7, 9, 10} : IsDigit(s[i])
        /\ s[5] = "-" /\ s[8] = "-"
        /\ s[11] = "." /\ s[12] = "m" /\ s[13] = "d"

\* code points of the characters of file names
Ord ==
    ( "-" :> 45 ) @@ ( "." :> 46 ) @@
    ( "0" :> 48 ) @@ ( "1" :> 49 ) @@ ( "2" :> 50 ) @@ ( "3" :> 51 ) @@ ( "4" :> 52 ) @@
    ( "5" :> 53 ) @@ ( "6" :> 54 ) @@ ( "7" :> 55 ) @@ ( "8" :> 56 ) @@ ( "9" :> 57 ) @@
    ( "d" :> 100 ) @@ ( "e" :> 101 ) @@ ( "m" :> 109 ) @@ ( "n" :> 110 ) @@
    ( "o" :> 111 ) @@ ( "t" :> 116 )

\* s < t as Python compares strings
RECURSIVE StrLess(_, _)
StrLess(s, t) ==
    IF t = <<>> THEN FALSE
    ELSE IF s = <<>> THEN TRUE
    ELSE IF Ord[Head(s)] # Ord[Head(t)] THEN Ord[Head(s)] < Ord[Head(t)]
    ELSE StrLess(Tail(s), Tail(t))

NameLess(a, b) == StrLess(NameChars[a], NameChars[b])

\* files.sort(key=lambda p: p.name)
RECURSIVE SortByName(_)
SortByName(S) ==
    IF S = {} THEN <<>>
    ELSE LET least == CHOOSE a \in S : \A b \in S \ {a} : NameLess(a, b)
         IN  <<least>> \o SortByName(S \ {least})

\* every *.md file of the directory, whatever its name
_iter_daily_files_any_md(dir) == SortByName(DOMAIN dir)

\* what the directory holds under the name of a subdirectory: an entry that is
\* not a regular file and has no text (the text of a file has a line at least)
IsADirectory == <<>>

\* _iter_daily_files over the directory `dir` (name -> text): the entries
\* matched by glob("*.md") that pass path.is_file() and the pattern, sorted
_iter_daily_files(dir) ==
    SortByName({name \in DOMAIN dir :
                   dir[name] # IsADirectory /\ DAILY_FILE_PATTERN(name)})

---------------------------------------------------------------------------
(* State                                                                   *)

NoLoc ==
    [op |-> "none", path |-> "", text |-> <<>>, chunks |-> <<>>, vectors |-> <<>>,
     todo |-> <<>>, log |-> <<>>, files_n |-> 0, chunks_n |-> 0, old_ids |-> {},
     status |-> "", count |-> 0, hits |-> {}, torn |-> FALSE,
     provider |-> "none", vec_res |-> <<>>, fts_res |-> <<>>, alpha |-> 0,
     scores |-> <<>>, ranked |-> <<>>, id |-> <<>>]

NoIdx == [st |-> "none", text |-> <<>>]

EmptyDb == [chunks |-> {}, vec |-> <<>>, fts |-> <<>>, cache |-> <<>>, seq |-> 0]

InitCommon ==
    /\ files = <<>>
    /\ coll = EmptyBag
    /\ db = EmptyDb
    /\ disk = EmptyDb
    /\ pc = [c \in AllCallers |-> "idle"]
    /\ loc = [c \in AllCallers |-> NoLoc]
    /\ sent = {}
    /\ lastIdx = [p \in DirNames |-> NoIdx]
    /\ raced = [p \in DirNames |-> {}]
    /\ aborts = 0
    /\ snap = [valid |-> FALSE, rows |-> EmptyBag]

Init == variant \in {"sqlite", "milvus"} /\ InitCommon

\* the fusion step of MemoryStore.search on given result sets
InitFusion == variant = "fusion" /\ InitCommon

\* the two chunkers called directly
InitChunker == variant = "chunker" /\ InitCommon

\* MemoryChunk objects built directly
InitChunkId == variant = "chunk_id" /\ InitCommon

\* a store whose _iter_daily_files is called directly, as the test does
InitDaily == variant = "daily" /\ InitCommon

\* a MemoryStore whose _get_embedding is called directly
InitEmbed == variant = "embed" /\ InitCommon

InitConc == variant = "milvus" /\ InitCommon

\* positions inside index_file
IndexFilePcs == {"if_delete", "if_embed", "if_insert"}

InFlightOn(c, name) == pc[c] \in IndexFilePcs /\ loc[c].path = name

AllIdle == \A c \in AllCallers : pc[c] = "idle"

---------------------------------------------------------------------------
(* The daily directory (the agent runtime writes and removes log files)    *)

WriteFile(conc, name, text) ==
    /\ variant \in {"milvus", "daily"}
    /\ conc \/ AllIdle
    /\ text \in TextsFor(name)
    /\ ~(name \in DOMAIN files /\ files[name] = text)
    /\ files' = [n \in DOMAIN files \cup {name} |-> IF n = name THEN text ELSE files[n]]
    /\ snap' = [valid |-> FALSE, rows |-> EmptyBag]
    /\ sent' = {}
    /\ UNCHANGED <<variant, coll, db, disk, pc, loc, lastIdx, raced, aborts>>

RemoveFile(conc, name) ==
    /\ variant \in {"milvus", "daily"}
    /\ conc \/ AllIdle
    /\ name \in DOMAIN files
    /\ files' = [n \in DOMAIN files \ {name} |-> files[n]]
    /\ snap' = [valid |-> FALSE, rows |-> EmptyBag]
    /\ sent' = {}
    /\ UNCHANGED <<variant, coll, db, disk, pc, loc, lastIdx, raced, aborts>>

---------------------------------------------------------------------------
(* MilvusMemSearch operations                                              *)

\* texts of the other callers' index_file calls in flight on `name`
OthersOn(c, name) ==
    {loc[d].text : d \in {e \in AllCallers \ {c} : InFlightOn(e, name)}}

\* index_file, lines 205-206: read the file and split it
EnterIndexFile(c, name, base) ==
    /\ pc' = [pc EXCEPT ![c] = "if_delete"]
    /\ loc' = [loc EXCEPT ![c] =
                 [base EXCEPT !.path = name, !.text = files[name],
                              !.chunks = _split_daily_markdown(name, files[name]),
                              !.vectors = <<>>]]
    /\ raced' = [raced EXCEPT ![name] =
                   IF OthersOn(c, name) = {} THEN {}
                   ELSE @ \cup OthersOn(c, name) \cup {files[name]}]

\* an exception leaves the operation
Raise(c) ==
    /\ pc' = [pc EXCEPT ![c] = "ret"]
    /\ loc' = [loc EXCEPT ![c].status = "error"]

\* index_file returns `count`: to its caller, or to the loop of index_all
LeaveIndexFile(c, count) ==
    /\ lastIdx' = [lastIdx EXCEPT ![loc[c].path] = [st |-> "ok", text |-> loc[c].text]]
    /\ IF loc[c].op = "index_file"
       THEN /\ pc' = [pc EXCEPT ![c] = "ret"]
            /\ loc' = [loc EXCEPT ![c].status = "ok", ![c].count = count]
       ELSE /\ pc' = [pc EXCEPT ![c] = "ia_loop"]
            /\ loc' = [loc EXCEPT ![c].files_n = @ + 1, ![c].chunks_n = @ + count,
                                  ![c].log = Append(@, loc[c].path)]

IndexFileCall(c, name) ==
    /\ variant = "milvus"
    /\ pc[c] = "idle"
    /\ name \in DOMAIN files
    /\ EnterIndexFile(c, name, [NoLoc EXCEPT !.op = "index_file"])
    /\ sent' = {}
    /\ UNCHANGED <<variant, files, coll, db, disk, lastIdx, aborts, snap>>

\* lines 208-210
IndexFileDelete(c) ==
    /\ pc[c] = "if_delete"
    /\ coll' = _delete_by_source_path(coll, loc[c].path)
    /\ IF loc[c].chunks = <<>>
       THEN LeaveIndexFile(c, 0)
       ELSE /\ pc' = [pc EXCEPT ![c] = "if_embed"]
            /\ UNCHANGED <<loc, lastIdx>>
    /\ sent' = {}
    /\ UNCHANGED <<variant, files, db, disk, raced, aborts, snap>>

\* line 212: the encoder answers, or raises
IndexFileEmbed(c) ==
    /\ pc[c] = "if_embed"
    /\ sent' = {loc[c].chunks[i].content : i \in 1..Len(loc[c].chunks)}
    /\ \E raises \in {FALSE} \cup {aborts < MaxAborts} :
         IF raises
         THEN /\ Raise(c)
              /\ lastIdx' = [lastIdx EXCEPT ![loc[c].path] =
                               [st |-> "aborted", text |-> loc[c].text]]
              /\ aborts' = aborts + 1
         ELSE /\ pc' = [pc EXCEPT ![c] = "if_insert"]
              /\ loc' = [loc EXCEPT ![c].vectors =
                           [i \in 1..Len(loc[c].chunks) |-> Encode(loc[c].chunks[i].content)]]
              /\ UNCHANGED <<lastIdx, aborts>>
    /\ UNCHANGED <<variant, files, coll, db, disk, raced, snap>>

\* lines 213-229
IndexFileInsert(c) ==
    /\ pc[c] = "if_insert"
    /\ coll' \in InsertOutcomes(coll, Rows(loc[c].chunks, loc[c].vectors))
    /\ LeaveIndexFile(c, Len(loc[c].chunks))
    /\ sent' = {}
    /\ UNCHANGED <<variant, files, db, disk, raced, aborts, snap>>

\* index_all, lines 232-235: list the daily files
IndexAllCall(c) ==
    /\ variant = "milvus"
    /\ pc[c] = "idle"
    /\ pc' = [pc EXCEPT ![c] = "ia_loop"]
    /\ loc' = [loc EXCEPT ![c] =
                 [NoLoc EXCEPT !.op = "index_all", !.todo = _iter_daily_files(files)]]
    /\ sent' = {}
    /\ UNCHANGED <<variant, files, coll, db, disk, lastIdx, raced, aborts, snap>>

\* rebuild, lines 243-246: drop, recreate, enter index_all
RebuildCall(c) ==
    /\ variant = "milvus"
    /\ pc[c] = "idle"
    /\ coll' = drop_collection(coll)
    /\ pc' = [pc EXCEPT ![c] = "ia_loop"]
    /\ loc' = [loc EXCEPT ![c] =
                 [NoLoc EXCEPT !.op = "rebuild", !.todo = _iter_daily_files(files)]]
    /\ lastIdx' = [p \in DirNames |-> NoIdx]
    /\ raced' = [p \in DirNames |-> {}]
    /\ sent' = {}
    /\ UNCHANGED <<variant, files, db, disk, aborts, snap>>

\* index_all, lines 235-240: next file, or the summary
IndexAllNext(c) ==
    /\ pc[c] = "ia_loop"
    /\ sent' = {}
    /\ IF loc[c].todo = <<>>
       THEN /\ pc' = [pc EXCEPT ![c] = "ret"]
            /\ loc' = [loc EXCEPT ![c].status = "ok"]
            /\ snap' = IF loc[c].op = "rebuild"
                       THEN [valid |-> TRUE, rows |-> coll] ELSE snap
            /\ UNCHANGED <<raced, lastIdx, aborts>>
       ELSE LET name == Head(loc[c].todo)
            IN  IF name \in DOMAIN files
                THEN /\ EnterIndexFile(c, name, [loc[c] EXCEPT !.todo = Tail(@)])
                     /\ UNCHANGED <<snap, lastIdx, aborts>>
                ELSE \* read_text raises FileNotFoundError
                     /\ aborts < MaxAborts
                     /\ Raise(c)
                     /\ lastIdx' = [lastIdx EXCEPT ![name] =
                                      [st |-> "aborted", text |-> <<>>]]
                     /\ aborts' = aborts + 1
                     /\ UNCHANGED <<snap, raced>>
    /\ UNCHANGED <<variant, files, coll, db, disk>>

\* a path whose reindex is in flight shows neither its previous nor its new rows
Torn(name) ==
    \E d \in AllCallers :
        /\ InFlightOn(d, name)
        /\ lastIdx[name].st = "ok"
        /\ PathRows(coll, name) # RowsOf(name, lastIdx[name].text)
        /\ PathRows(coll, name) # RowsOf(name, loc[d].text)

\* search, lines 248-275: the top_k rows nearest to the query
MilvusSearch(c, query, top_k) ==
    /\ variant = "milvus"
    /\ pc[c] = "idle"
    /\ sent' = {query}
    /\ pc' = [pc EXCEPT ![c] = "ret"]
    /\ \E raises \in BOOLEAN :
         IF raises
         THEN loc' = [loc EXCEPT ![c] = [NoLoc EXCEPT !.op = "search", !.status = "error"]]
         ELSE \E hits \in SUBSET DOMAIN coll :
                /\ Cardinality(hits) =
                     IF top_k < Cardinality(DOMAIN coll) THEN top_k
                     ELSE Cardinality(DOMAIN coll)
                /\ loc' = [loc EXCEPT ![c] =
                             [NoLoc EXCEPT !.op = "search", !.status = "ok",
                                           !.hits = {[source_path |-> r.source_path,
                                                      start_line |-> r.start_line,
                                                      end_line |-> r.end_line,
                                                      content |-> r.content] : r \in hits},
                                           !.torn = /\ hits = DOMAIN coll
                                                    /\ \E name \in DirNames : Torn(name)]]
    /\ UNCHANGED <<variant, files, coll, db, disk, lastIdx, raced, aborts, snap>>

\* the operation's result reaches its caller
Return(c) ==
    /\ pc[c] = "ret"
    /\ pc' = [pc EXCEPT ![c] = "idle"]
    /\ loc' = [loc EXCEPT ![c] = NoLoc]
    /\ sent' = {}
    /\ UNCHANGED <<variant, files, coll, db, disk, lastIdx, raced, aborts, snap>>

---------------------------------------------------------------------------
(* MemoryStore: embedding cache                                            *)

\* memory.py: EMBEDDING_DIM
EMBEDDING_DIM == 4096

\* _calculate_hash: md5 of the text, taken as injective
_calculate_hash(text) == <<"md5", text>>

\* what client.embeddings.create answers for `text`
ProviderOutcomes == {"ok", "baddim", "error"}

ProviderVector(text, outcome) ==
    [dim |-> IF outcome = "baddim" THEN EMBEDDING_DIM + 1 ELSE EMBEDDING_DIM,
     val |-> <<"emb", text>>, f32 |-> FALSE]

\* [0.0] * EMBEDDING_DIM
ZeroVector == [dim |-> EMBEDDING_DIM, val |-> <<"zero">>, f32 |-> TRUE]

\* all(v == 0.0 for v in vector)
IsZero(vector) == vector.val = <<"zero">>

\* struct.pack(f"{EMBEDDING_DIM}f", *vector): the bytes of the values in
\* single precision
Pack(vector) == <<"blob", vector.dim, vector.val>>

\* list(struct.unpack(f"{EMBEDDING_DIM}f", blob)): single precision values
Unpack(blob) == [dim |-> blob[2], val |-> blob[3], f32 |-> TRUE]

\* a cache that keeps only the entry written last
CachePutEvicting(cache, hash, blob) == [h \in {hash} |-> blob]

\* INSERT OR REPLACE INTO embedding_cache (hash, embedding)
CachePut(cache, hash, blob) ==
    [h \in DOMAIN cache \cup {hash} |-> IF h = hash THEN blob ELSE cache[h]]

\* a _get_embedding that stores the zero vector it returns after a failure
_get_embedding_caching_zero(d, text, text_hash, outcome) ==
    IF text_hash \in DOMAIN d.cache
    THEN [vector |-> Unpack(d.cache[text_hash]), db |-> d,
          called |-> FALSE, commit |-> FALSE]
    ELSE IF outcome # "error" /\ ProviderVector(text, outcome).dim = EMBEDDING_DIM
    THEN [vector |-> ProviderVector(text, outcome),
          db |-> [d EXCEPT !.cache = CachePut(@, text_hash, Pack(ProviderVector(text, outcome)))],
          called |-> TRUE, commit |-> TRUE]
    ELSE [vector |-> ZeroVector,
          db |-> [d EXCEPT !.cache = CachePut(@, text_hash, Pack(ZeroVector))],
          called |-> TRUE, commit |-> TRUE]

\* _get_embedding(text, text_hash) on the connection's database d:
\* the vector returned, the database afterwards, whether the provider was
\* called and whether the connection committed
_get_embedding(d, text, text_hash, outcome) ==
    IF text_hash \in DOMAIN d.cache
    THEN [vector |-> Unpack(d.cache[text_hash]), db |-> d,
          called |-> FALSE, commit |-> FALSE]
    ELSE IF outcome # "error" /\ ProviderVector(text, outcome).dim = EMBEDDING_DIM
    THEN [vector |-> ProviderVector(text, outcome),
          db |-> [d EXCEPT !.cache = CachePut(@, text_hash, Pack(ProviderVector(text, outcome)))],
          called |-> TRUE, commit |-> TRUE]
    ELSE [vector |-> ZeroVector, db |-> d, called |-> TRUE, commit |-> FALSE]

---------------------------------------------------------------------------
(* MemoryStore operations                                                  *)

\* ids of the rows of chunks with this file_path
IdsOf(d, file_path) == {r.id : r \in {q \in d.chunks : q.file_path = file_path}}

Without(f, ids) == [k \in DOMAIN f \ ids |-> f[k]]

With(f, key, value) == [k \in DOMAIN f \cup {key} |-> IF k = key THEN value ELSE f[k]]

\* process_file, lines 232-243: the rows of the file's previous version
DeleteOld(d, file_path) ==
    [d EXCEPT !.vec = Without(@, IdsOf(d, file_path)),
              !.chunks = {r \in @ : r.file_path # file_path}]

\* a rowid without AUTOINCREMENT: one more than the largest id now in chunks
NextRowIdOfLargestStored(d) ==
    IF d.chunks = {} THEN 1
    ELSE (CHOOSE m \in {r.id : r \in d.chunks} : \A r \in d.chunks : r.id <= m) + 1

\* AUTOINCREMENT: one more than the largest rowid ever handed out
NextRowId(d) == d.seq + 1

ChunkRow(id, file_path, chunk) ==
    [id |-> id, file_path |-> file_path, start_line |-> chunk.start,
     end_line |-> chunk.end, content |-> chunk.content,
     chunk_hash |-> _calculate_hash(chunk.content)]

\* lines 259-266: INSERT INTO chunks
InsertChunk(d, file_path, chunk) ==
    [d EXCEPT !.chunks = @ \cup {ChunkRow(NextRowId(d), file_path, chunk)},
              !.seq = NextRowId(d)]

\* lines 269-272: INSERT INTO chunks_fts (rowid, content)
InsertFts(d, row_id, content) == [d EXCEPT !.fts = With(@, row_id, content)]

\* lines 275-279: INSERT INTO chunks_vec (id, embedding)
InsertVec(d, row_id, vector) == [d EXCEPT !.vec = With(@, row_id, Pack(vector))]

\* the statement of lines 259-279 that raises, if any
WriteFailures == {"none", "chunks", "fts", "vec"}

\* the database after the writes of lines 259-279 that ran
WriteChunk(d, file_path, chunk, vector, failAt) ==
    IF failAt = "chunks" THEN d
    ELSE LET d1 == InsertChunk(d, file_path, chunk)
         IN  IF failAt = "fts" THEN d1
             ELSE LET d2 == InsertFts(d1, d1.seq, chunk.content)
                  IN  IF failAt = "vec" THEN d2
                      ELSE InsertVec(d2, d1.seq, vector)

ProcessFileCall(c, file_path, text) ==
    /\ variant = "sqlite"
    /\ pc[c] = "idle"
    /\ db.seq + Len(_split_text_sliding_window(text)) <= MaxRowId
    /\ pc' = [pc EXCEPT ![c] = "pf_clean"]
    /\ loc' = [loc EXCEPT ![c] =
                 [NoLoc EXCEPT !.op = "process_file", !.path = file_path, !.text = text]]
    /\ sent' = {}
    /\ UNCHANGED <<variant, mvVars, sqVars, lastIdx, aborts>>

\* lines 232-247
ProcessFileClean(c) ==
    /\ pc[c] = "pf_clean"
    /\ db' = DeleteOld(db, loc[c].path)
    /\ pc' = [pc EXCEPT ![c] = "pf_chunk"]
    /\ loc' = [loc EXCEPT ![c].old_ids = IdsOf(db, loc[c].path),
                          ![c].chunks = _split_text_sliding_window(loc[c].text)]
    /\ sent' = {}
    /\ UNCHANGED <<variant, mvVars, disk, lastIdx, aborts>>

\* lines 250-256: next chunk, skipped when blank, else its embedding
ProcessFileChunk(c) ==
    /\ pc[c] = "pf_chunk"
    /\ IF loc[c].chunks = <<>>
       THEN /\ pc' = [pc EXCEPT ![c] = "pf_commit"]
            /\ sent' = {}
            /\ UNCHANGED <<loc, db, disk>>
       ELSE LET content == Head(loc[c].chunks).content
            IN  IF Strip(content) = <<>>
                THEN /\ loc' = [loc EXCEPT ![c].chunks = Tail(@)]
                     /\ sent' = {}
                     /\ UNCHANGED <<pc, db, disk>>
                ELSE \E outcome \in ProviderOutcomes :
                       LET e == _get_embedding(db, content, _calculate_hash(content), outcome)
                       IN  /\ db' = e.db
                           /\ disk' = IF e.commit THEN e.db ELSE disk
                           /\ sent' = IF e.called THEN {content} ELSE {}
                           /\ loc' = [loc EXCEPT ![c].vectors = <<e.vector>>]
                           /\ pc' = [pc EXCEPT ![c] = "pf_write"]
    /\ UNCHANGED <<variant, mvVars, lastIdx, aborts>>

\* lines 258-279: the three inserts of one chunk, or the exception of one of them
ProcessFileWrite(c) ==
    /\ pc[c] = "pf_write"
    /\ sent' = {}
    /\ \E failAt \in IF aborts < MaxAborts THEN WriteFailures ELSE {"none"} :
         /\ db' = WriteChunk(db, loc[c].path, Head(loc[c].chunks), loc[c].vectors[1], failAt)
         /\ IF failAt = "none"
            THEN /\ pc' = [pc EXCEPT ![c] = "pf_chunk"]
                 /\ loc' = [loc EXCEPT ![c].chunks = Tail(@), ![c].vectors = <<>>]
                 /\ UNCHANGED <<lastIdx, aborts>>
            ELSE /\ Raise(c)
                 /\ lastIdx' = [lastIdx EXCEPT ![loc[c].path] =
                                  [st |-> "aborted", text |-> loc[c].text]]
                 /\ aborts' = aborts + 1
    /\ UNCHANGED <<variant, mvVars, disk>>

\* line 281
ProcessFileCommit(c) ==
    /\ pc[c] = "pf_commit"
    /\ disk' = db
    /\ pc' = [pc EXCEPT ![c] = "ret"]
    /\ loc' = [loc EXCEPT ![c].status = "ok"]
    /\ lastIdx' = [lastIdx EXCEPT ![loc[c].path] = [st |-> "ok", text |-> loc[c].text]]
    /\ sent' = {}
    /\ UNCHANGED <<variant, mvVars, db, aborts>>

Min(a, b) == IF a < b THEN a ELSE b

\* row[3][:100] + "..."
Preview(content) == SubSeq(content, 1, Min(100, Len(content))) \o <<".", ".", ".">>

\* lines 344-359: the result of the row id, if the id is in chunks; the parts
\* of "source" (file_path, start_line, end_line) are kept apart
Resolve(d, ids) ==
    {[source_path |-> r.file_path, start_line |-> r.start_line,
      end_line |-> r.end_line, content |-> Preview(r.content)] :
        r \in {q \in d.chunks : q.id \in ids}}

\* search, lines 284-361; distances and ranks are left open, so the k nearest
\* vectors, the matching texts and the `limit` best of their union are any;
\* count is len(scores[:limit]), the number of candidates taken for display
SqliteSearch(c, query, limit) ==
    /\ variant = "sqlite"
    /\ pc[c] = "idle"
    /\ pc' = [pc EXCEPT ![c] = "ret"]
    /\ \E outcome \in ProviderOutcomes :
         LET e == _get_embedding(db, query, _calculate_hash(query), outcome)
         IN  /\ db' = e.db
             /\ disk' = IF e.commit THEN e.db ELSE disk
             /\ sent' = IF e.called THEN {query} ELSE {}
             /\ IF IsZero(e.vector)
                THEN loc' = [loc EXCEPT ![c] = [NoLoc EXCEPT !.op = "search", !.status = "ok"]]
                ELSE \E vec_res \in SUBSET DOMAIN db.vec, fts_res \in SUBSET DOMAIN db.fts :
                       /\ Cardinality(vec_res) = Min(2 * limit, Cardinality(DOMAIN db.vec))
                       /\ Cardinality(fts_res) <= 2 * limit
                       /\ \E top \in SUBSET (vec_res \cup fts_res) :
                            /\ Cardinality(top) = Min(limit, Cardinality(vec_res \cup fts_res))
                            /\ loc' = [loc EXCEPT ![c] =
                                         [NoLoc EXCEPT !.op = "search", !.status = "ok",
                                                       !.count = Cardinality(top),
                                                       !.hits = Resolve(e.db, top)]]
    /\ UNCHANGED <<variant, mvVars, lastIdx, aborts>>

SqliteNext(callers) ==
    \/ \E c \in callers, file_path \in SqlitePaths, text \in SqliteTexts :
            ProcessFileCall(c, file_path, text)
    \/ \E c \in callers : ProcessFileClean(c)
    \/ \E c \in callers : ProcessFileChunk(c)
    \/ \E c \in callers : ProcessFileWrite(c)
    \/ \E c \in callers : ProcessFileCommit(c)
    \/ \E c \in callers, query \in Queries, limit \in TopKs : SqliteSearch(c, query, limit)

MilvusNext(callers, conc, names, texts) ==
    \/ \E name \in names, text \in texts : WriteFile(conc, name, text)
    \/ \E name \in names : RemoveFile(conc, name)
    \/ \E c \in callers, name \in names : IndexFileCall(c, name)
    \/ \E c \in callers : IndexFileDelete(c)
    \/ \E c \in callers : IndexFileEmbed(c)
    \/ \E c \in callers : IndexFileInsert(c)
    \/ \E c \in callers : IndexAllCall(c)
    \/ \E c \in callers : RebuildCall(c)
    \/ \E c \in callers : IndexAllNext(c)
    \/ \E c \in callers, query \in Queries, top_k \in TopKs : MilvusSearch(c, query, top_k)
    \/ \E c \in callers : Return(c)

Next == MilvusNext({1}, FALSE, DirNames, Texts) \/ SqliteNext({1})
NextConc == MilvusNext(AllCallers, TRUE, ConcNames, ConcTexts)

Spec == Init /\ [][Next]_vars
SpecConc == InitConc /\ [][NextConc]_vars

---------------------------------------------------------------------------
(* MemoryStore._get_embedding called on its own                            *)

\* texts handed to _get_embedding
EmbedTexts == { <<"x">>, <<"y">>, <<"a">>, <<"b">> }

\* _get_embedding(text, _calculate_hash(text)): it has no raise that leaves
\* it (lines 139-142 catch every Exception), so the caller gets a vector
GetEmbeddingCall(c, text, outcome) ==
    /\ variant = "embed"
    /\ pc[c] = "idle"
    /\ LET e == _get_embedding(db, text, _calculate_hash(text), outcome)
       IN  /\ db' = e.db
           /\ disk' = IF e.commit THEN e.db ELSE disk
           /\ sent' = IF e.called THEN {text} ELSE {}
           /\ outcome = "ok" \/ e.called
           /\ loc' = [loc EXCEPT ![c] =
                        [NoLoc EXCEPT !.op = "_get_embedding", !.text = text,
                                      !.vectors = <<e.vector>>, !.status = "ok",
                                      !.provider = IF e.called THEN outcome ELSE "none"]]
    /\ pc' = [pc EXCEPT ![c] = "ret"]
    /\ UNCHANGED <<variant, mvVars, lastIdx, aborts>>

NextEmbed ==
    \/ \E text \in EmbedTexts, outcome \in ProviderOutcomes : GetEmbeddingCall(1, text, outcome)
    \/ Return(1)

SpecEmbed == InitEmbed /\ [][NextEmbed]_vars

---------------------------------------------------------------------------
(* The chunkers called on their own                                        *)

\* most lines of a text handed to a chunker
MaxLines == 3

\* the lines the texts are made of: title, headers (one indented), body,
\* empty line, blank line
ChunkLines ==
    { <<"#"," ","d">>, <<"#","#"," ","a">>, <<" ","#","#"," ","b">>, <<"x">>, <<>>, <<" ">> }

\* text.split("\n") of the texts: at least one line (the empty text has one
\* empty line)
ChunkTexts == UNION {[1..n -> ChunkLines] : n \in 1..MaxLines}

ChunkerPath == "2026-02-09.md"

\* _split_daily_markdown(file_path, text)
SplitDailyCall(c, text) ==
    /\ variant = "chunker"
    /\ pc[c] = "idle"
    /\ pc' = [pc EXCEPT ![c] = "ret"]
    /\ loc' = [loc EXCEPT ![c] =
                 [NoLoc EXCEPT !.op = "_split_daily_markdown", !.path = ChunkerPath,
                               !.text = text, !.status = "ok",
                               !.chunks = _split_daily_markdown(ChunkerPath, text)]]
    /\ sent' = {}
    /\ UNCHANGED <<variant, mvVars, sqVars, lastIdx, aborts>>

\* _split_text_sliding_window(text)
SplitSlidingCall(c, text) ==
    /\ variant = "chunker"
    /\ pc[c] = "idle"
    /\ pc' = [pc EXCEPT ![c] = "ret"]
    /\ loc' = [loc EXCEPT ![c] =
                 [NoLoc EXCEPT !.op = "_split_text_sliding_window",
                               !.text = text, !.status = "ok",
                               !.chunks = _split_text_sliding_window(text)]]
    /\ sent' = {}
    /\ UNCHANGED <<variant, mvVars, sqVars, lastIdx, aborts>>

NextChunker ==
    \/ \E text \in ChunkTexts : SplitDailyCall(1, text)
    \/ \E text \in ChunkTexts : SplitSlidingCall(1, text)
    \/ Return(1)

SpecChunker == InitChunker /\ [][NextChunker]_vars

---------------------------------------------------------------------------
(* MilvusMemSearch._iter_daily_files called directly                       *)

\* a subdirectory is made under `name`
MakeDirectory(name) ==
    /\ variant = "daily"
    /\ AllIdle
    /\ name \notin DOMAIN files
    /\ files' = [n \in DOMAIN files \cup {name} |->
                   IF n = name THEN IsADirectory ELSE files[n]]
    /\ sent' = {}
    /\ UNCHANGED <<variant, coll, db, disk, pc, loc, lastIdx, raced, aborts, snap>>

\* _iter_daily_files(), lines 111-117
IterDailyFilesCall(c) ==
    /\ variant = "daily"
    /\ pc[c] = "idle"
    /\ pc' = [pc EXCEPT ![c] = "ret"]
    /\ loc' = [loc EXCEPT ![c] =
                 [NoLoc EXCEPT !.op = "_iter_daily_files", !.status = "ok",
                               !.todo = _iter_daily_files(files)]]
    /\ sent' = {}
    /\ UNCHANGED <<variant, mvVars, sqVars, lastIdx, aborts>>

\* the names of the test: two dates, "note.md" and "2026-2-9.md"
NextDaily ==
    LET names == DirNames \cup {"2026-2-9.md"}
    IN  \/ \E name \in names : \E text \in TextsFor(name) : WriteFile(FALSE, name, text)
        \/ \E name \in names : RemoveFile(FALSE, name)
        \/ \E name \in names : MakeDirectory(name)
        \/ IterDailyFilesCall(1)
        \/ Return(1)

SpecDaily == InitDaily /\ [][NextDaily]_vars

---------------------------------------------------------------------------
(* MemoryChunk.chunk_id read on chunks built directly                      *)

\* largest line number of a chunk
MaxLineNo == 11

\* MemoryChunk(source_path, date, start_line, end_line, content) over a line
\* range start_line..end_line
IdChunks ==
    UNION {{MemoryChunk(path, <<>>, start, end, content) :
                path \in {"m1", "m11", "m1:1"}, end \in start..MaxLineNo,
                content \in {<<"x">>, <<"y">>}} :
           start \in 1..MaxLineNo}

\* chunk.chunk_id, read twice: the property is computed at each access
ChunkIdCall(c, chunk) ==
    /\ variant = "chunk_id"
    /\ pc[c] = "idle"
    /\ pc' = [pc EXCEPT ![c] = "ret"]
    /\ loc' = [loc EXCEPT ![c] =
                 [NoLoc EXCEPT !.op = "chunk_id", !.status = "ok", !.chunks = <<chunk>>,
                               !.id = <<chunk_id(chunk), chunk_id(chunk)>>]]
    /\ sent' = {}
    /\ UNCHANGED <<variant, mvVars, sqVars, lastIdx, aborts>>

NextChunkId ==
    \/ \E c \in AllCallers : pc[c] = "idle" /\ \E chunk \in IdChunks : ChunkIdCall(c, chunk)
    \/ \E c \in AllCallers : Return(c)

SpecChunkId == InitChunkId /\ [][NextChunkId]_vars

---------------------------------------------------------------------------
(* MemoryStore.search: fusion of the two result sets (lines 315-346)       *)

\* row ids the two queries may return
FusionIds == {1, 2, 3}

\* largest distance, and largest rank in absolute value, of a hit
MaxValue == 2

\* vector distances (lower is nearer) and FTS5 ranks (bm25: lower is better)
Distances == 0..MaxValue
Ranks == {0 - v : v \in 0..MaxValue}

\* {r[0]: r[1] for r in cursor.fetchall()}: id -> value, for the ids returned
ResultSets(values) == UNION {[ids -> values] : ids \in SUBSET FusionIds}

\* search(..., alpha = 0.7), in tenths
DefaultAlphaTenths == 7

\* the alpha a search is called with, in tenths
Alphas == {0, DefaultAlphaTenths, 10}

\* vec_res.values() or [0]
ValuesOrZero(res) == IF DOMAIN res = {} THEN {0} ELSE {res[rid] : rid \in DOMAIN res}

MinOf(S) == CHOOSE m \in S : \A v \in S : m <= v
MaxOf(S) == CHOOSE m \in S : \A v \in S : m >= v

\* vec_res.get(rid, v_max)
GetOr(res, rid, default) == IF rid \in DOMAIN res THEN res[rid] ELSE default

\* norm(val, min_v, max_v), a fraction num / den with den > 0
norm(val, min_v, max_v) ==
    IF max_v = min_v THEN [num |-> 0, den |-> 1]
    ELSE [num |-> val - min_v, den |-> max_v - min_v]

\* 1.0 - norm(...)
OneMinus(r) == [num |-> r.den - r.num, den |-> r.den]

\* (alpha * v_score) + ((1 - alpha) * f_score), alpha in tenths; the fractions
\* are exact, the rounding of the floats is left out
Final(alpha, v_score, f_score) ==
    [num |-> alpha * v_score.num * f_score.den + (10 - alpha) * f_score.num * v_score.den,
     den |-> 10 * v_score.den * f_score.den]

\* lines 316-341: the scores of every id of the union
Scores(vec_res, fts_res, alpha) ==
    LET v_min == MinOf(ValuesOrZero(vec_res))
        v_max == MaxOf(ValuesOrZero(vec_res))
        f_min == MinOf(ValuesOrZero(fts_res))
        f_max == MaxOf(ValuesOrZero(fts_res))
    IN  [rid \in DOMAIN vec_res \cup DOMAIN fts_res |->
            LET v_score == OneMinus(norm(GetOr(vec_res, rid, v_max), v_min, v_max))
                f_score == OneMinus(norm(GetOr(fts_res, rid, f_max), f_min, f_max))
            IN  [v_score |-> v_score, f_score |-> f_score,
                 final |-> Final(alpha, v_score, f_score)]]

\* a >= b for fractions with positive denominators
FracGeq(a, b) == a.num * b.den >= b.num * a.den

\* scores.sort(key=lambda x: x[1], reverse=True): the orders of the ids by
\* descending final score; ids of equal score keep the order in which the set
\* all_ids was iterated, which is any
SortedOrders(scores) ==
    {order \in [1..Cardinality(DOMAIN scores) -> DOMAIN scores] :
        /\ \A i, j \in DOMAIN order : i # j => order[i] # order[j]
        /\ \A i, j \in DOMAIN order :
              i < j => FracGeq(scores[order[i]].final, scores[order[j]].final)}

\* lines 315-346 on the result sets of the two queries: scores, sort, [:limit]
FuseCall(c, vec_res, fts_res, alpha, limit) ==
    /\ variant = "fusion"
    /\ pc[c] = "idle"
    /\ pc' = [pc EXCEPT ![c] = "ret"]
    /\ \E order \in SortedOrders(Scores(vec_res, fts_res, alpha)) :
         loc' = [loc EXCEPT ![c] =
                   [NoLoc EXCEPT !.op = "fusion", !.status = "ok",
                                 !.vec_res = vec_res, !.fts_res = fts_res, !.alpha = alpha,
                                 !.count = limit,
                                 !.scores = Scores(vec_res, fts_res, alpha),
                                 !.ranked = SubSeq(order, 1, Min(limit, Len(order)))]]
    /\ sent' = {}
    /\ UNCHANGED <<variant, mvVars, sqVars, lastIdx, aborts>>

\* search reaches its fusion step with the result sets of its two queries
FuseStep(c) ==
    /\ pc[c] = "idle"
    /\ \E vec_res \in ResultSets(Distances), fts_res \in ResultSets(Ranks),
          alpha \in Alphas, limit \in TopKs : FuseCall(c, vec_res, fts_res, alpha, limit)

NextFusion ==
    \/ FuseStep(1)
    \/ Return(1)

SpecFusion == InitFusion /\ [][NextFusion]_vars

---------------------------------------------------------------------------
(* Properties                                                              *)

\* a caller is reindexing `name`
Reindexing(name) ==
    \E c \in AllCallers :
        /\ pc[c] \in IndexFilePcs \cup {"pf_clean", "pf_chunk", "pf_write", "pf_commit"}
        /\ loc[c].path = name

\* the chunks process_file stores for `text`: those of the chunker that are not blank
SqliteChunksOf(text) ==
    LET chunks == _split_text_sliding_window(text)
    IN  {[start_line |-> chunks[i].start, end_line |-> chunks[i].end,
          content |-> chunks[i].content] :
            i \in {j \in 1..Len(chunks) : Strip(chunks[j].content) # <<>>}}

\* the chunks the table chunks of database d holds for file_path
StoredChunks(d, file_path) ==
    {[start_line |-> r.start_line, end_line |-> r.end_line, content |-> r.content] :
        r \in {q \in d.chunks : q.file_path = file_path}}

\* database d holds exactly the chunks of `text` for file_path, each once
HoldsVersion(d, file_path, text) ==
    /\ StoredChunks(d, file_path) = SqliteChunksOf(text)
    /\ Cardinality(IdsOf(d, file_path)) = Cardinality(SqliteChunksOf(text))

\* the chunks a search may show for `name` once `text` is its indexed version
VisibleChunksOf(name, text) ==
    IF variant = "sqlite"
    THEN {[source_path |-> name, start_line |-> k.start_line, end_line |-> k.end_line,
           content |-> Preview(k.content)] : k \in SqliteChunksOf(text)}
    ELSE {[source_path |-> r.source_path, start_line |-> r.start_line,
           end_line |-> r.end_line, content |-> r.content] : r \in DOMAIN RowsOf(name, text)}

\* C1: after successful index_file / process_file calls on a path, the chunks
\* stored for the path are exactly the chunks of the content of the latest
\* call, each once, and a search returns no chunk of an earlier version.
C1_NoStaleSurvivors ==
    /\ \A name \in DirNames :
         (lastIdx[name].st = "ok" /\ ~Reindexing(name)) =>
            IF variant = "milvus"
            THEN PathRows(coll, name) = RowsOf(name, lastIdx[name].text)
            ELSE /\ HoldsVersion(db, name, lastIdx[name].text)
                 /\ HoldsVersion(disk, name, lastIdx[name].text)
    /\ \A c \in AllCallers :
         (pc[c] = "ret" /\ loc[c].op = "search") =>
            \A h \in loc[c].hits :
                (lastIdx[h.source_path].st = "ok" /\ ~Reindexing(h.source_path)) =>
                    h \in VisibleChunksOf(h.source_path, lastIdx[h.source_path].text)

\* C1 witness: a path indexed with two blocks and then again without header;
\* the lexical index still carries a text of the first version.
C1_Witness ==
    /\ variant = "sqlite" /\ AllIdle /\ aborts = 0
    /\ lastIdx["2026-02-09.md"] = [st |-> "ok", text |-> TextNoHeader]
    /\ lastIdx["2026-02-10.md"].st = "none"
    /\ \E id \in DOMAIN db.fts :
         db.fts[id] \in {k.content : k \in SqliteChunksOf(TextTwoBlocks)}

\* C2: once index_file / process_file inserts the rows of the new version,
\* no row of the previous version is left in the chunk store, the vector
\* index or the lexical index.
C2_DeleteBeforeInsert ==
    \A c \in AllCallers :
        /\ (pc[c] \in {"pf_chunk", "pf_write", "pf_commit"} /\ aborts = 0) =>
              /\ loc[c].old_ids \cap {r.id : r \in db.chunks} = {}
              /\ loc[c].old_ids \cap DOMAIN db.vec = {}
              /\ loc[c].old_ids \cap DOMAIN db.fts = {}
        /\ (pc[c] \in {"if_embed", "if_insert"}) =>
              PathRows(coll, loc[c].path) = EmptyBag

\* C3: after completed process_file calls the chunk store, the vector index
\* and the lexical index hold the same row identifiers.
C3_SameRowIds ==
    (variant = "sqlite" /\ AllIdle /\ aborts = 0) =>
        /\ DOMAIN db.vec = {r.id : r \in db.chunks}
        /\ DOMAIN db.fts = {r.id : r \in db.chunks}

\* C4: a search that returns every row of the collection while index_file of
\* a path is in flight shows the rows of the path's previous version or those
\* of its new version.
C4_SearchSeesWholeVersion ==
    \A c \in AllCallers :
        (pc[c] = "ret" /\ loc[c].op = "search") => ~loc[c].torn

\* C5: when index_file calls with different contents overlapped on a path and
\* all have returned, the rows of the path are those of one of the contents,
\* each once.
C5_LastWriteWins ==
    (AllIdle /\ aborts = 0) =>
        \A name \in DirNames :
            Cardinality(raced[name]) >= 2 =>
                \E text \in raced[name] : PathRows(coll, name) = RowsOf(name, text)

\* the committed database holds no row of file_path, or all chunks of `text`,
\* and every chunk row it holds has its vector and its lexical row
NothingOrAll(d, file_path, text) ==
    /\ IdsOf(d, file_path) = {} \/ HoldsVersion(d, file_path, text)
    /\ IdsOf(d, file_path) \subseteq DOMAIN d.vec
    /\ IdsOf(d, file_path) \subseteq DOMAIN d.fts

\* C6: after an index_file / process_file that failed partway, the stores
\* hold no row of the path or the complete new version, never a part of it.
C6_NoPartialVersion ==
    \A name \in DirNames :
        (lastIdx[name].st = "aborted" /\ AllIdle) =>
            IF variant = "milvus"
            THEN PathRows(coll, name) \in {EmptyBag, RowsOf(name, lastIdx[name].text)}
            ELSE NothingOrAll(disk, name, lastIdx[name].text)

\* rebuild is about to return its summary
RebuildReturning(c) ==
    pc[c] = "ia_loop" /\ loc[c].op = "rebuild" /\ loc[c].todo = <<>>

\* C7: with the files unchanged since the previous rebuild, a rebuild leaves
\* the same rows (ids, contents, line ranges, paths, each once) as that one.
C7_RebuildIdempotent ==
    \A c \in AllCallers :
        (RebuildReturning(c) /\ snap.valid) => coll = snap.rows

\* C7 witness: a second rebuild over unchanged files returns a filled index.
C7_Witness ==
    \E c \in AllCallers :
        /\ RebuildReturning(c) /\ snap.valid
        /\ Cardinality(DOMAIN coll) >= 3

\* the daily files the directory holds
DailyFilesPresent == {"2026-02-09.md", "2026-02-10.md"} \cap DOMAIN files

\* the rows of all daily files
RECURSIVE RowsOfFiles(_)
RowsOfFiles(names) ==
    IF names = {} THEN EmptyBag
    ELSE LET name == CHOOSE n \in names : TRUE
         IN  RowsOf(name, files[name]) (+) RowsOfFiles(names \ {name})

Range(s) == {s[i] : i \in DOMAIN s}

\* C8: rebuild empties the index first, so that while it runs every row
\* belongs to a file it has indexed since; it calls index_file once per daily
\* file in ascending name order, and returns with exactly their chunks.
C8_RebuildFromScratchInOrder ==
    \A c \in AllCallers :
        (loc[c].op = "rebuild" /\ loc[c].status # "error") =>
            /\ \A r \in DOMAIN coll : r.source_path \in Range(loc[c].log)
            /\ \A i, j \in DOMAIN loc[c].log :
                  i < j => (loc[c].log[i] = "2026-02-09.md" /\ loc[c].log[j] = "2026-02-10.md")
            /\ Range(loc[c].log) \subseteq DailyFilesPresent
            /\ (pc[c] = "ret") =>
                  /\ Range(loc[c].log) = DailyFilesPresent
                  /\ loc[c].files_n = Cardinality(DailyFilesPresent)
                  /\ coll = RowsOfFiles(DailyFilesPresent)

\* C8 witness: a rebuild returns after indexing both daily files, with a
\* file of another name in the directory.
C8_Witness ==
    \E c \in AllCallers :
        /\ pc[c] = "ret" /\ loc[c].op = "rebuild" /\ loc[c].status = "ok"
        /\ loc[c].log = <<"2026-02-09.md", "2026-02-10.md">>
        /\ "note.md" \in DOMAIN files
        /\ Cardinality(DOMAIN coll) >= 3

\* an embedding of `text` is held: in the cache, or in a row of the collection
Embedded(text) ==
    \/ _calculate_hash(text) \in DOMAIN db.cache
    \/ \E r \in DOMAIN coll : r.content = text

\* C9: the embedding provider is not called for a text whose embedding an
\* earlier request has obtained.
C9_ProviderCalledOnce ==
    [][\A text \in sent' : ~Embedded(text)]_vars

\* every entry of cache `old` is in cache `new` with the same vector
CacheKept(old, new) == \A h \in DOMAIN old : h \in DOMAIN new /\ new[h] = old[h]

\* C10: no step deletes or changes an entry of the embedding cache, in the
\* connection's view or in the committed database.
C10_CacheOnlyGrows ==
    [][CacheKept(db.cache, db.cache') /\ CacheKept(disk.cache, disk.cache')]_vars

\* C10 witness: the committed cache holds three entries, written by
\* process_file and by search.
C10_Witness ==
    /\ Cardinality(DOMAIN disk.cache) >= 3
    /\ \E c \in AllCallers : pc[c] = "ret" /\ loc[c].op = "search"

\* the provider was called for the text of this _get_embedding and failed
ProviderFailed(c) ==
    pc[c] = "ret" /\ loc[c].op = "_get_embedding" /\ loc[c].provider = "error"

\* the provider answered this _get_embedding with a vector of another length
ProviderBadDim(c) ==
    pc[c] = "ret" /\ loc[c].op = "_get_embedding" /\ loc[c].provider = "baddim"

\* C11: a _get_embedding whose provider call failed reports the failure to
\* its caller and hands it no vector.
C11_FailureReported ==
    \A c \in AllCallers :
        ProviderFailed(c) => (loc[c].status = "error" /\ loc[c].vectors = <<>>)

\* a step in which caller c calls _get_embedding
GetEmbeddingStep(c) ==
    pc[c] = "idle" /\ pc'[c] = "ret" /\ loc'[c].op = "_get_embedding"

\* C12: a _get_embedding whose provider call failed (an error, or a vector of
\* another length) leaves the embedding cache as it was, without an entry for
\* the text's hash, and a _get_embedding for a text whose hash the cache lacks
\* calls the provider.
C12_FailureLeavesCache ==
    [][\A c \in AllCallers :
          GetEmbeddingStep(c) =>
            /\ (loc'[c].provider \in {"error", "baddim"}) =>
                   /\ db'.cache = db.cache
                   /\ disk'.cache = disk.cache
                   /\ _calculate_hash(loc'[c].text) \notin DOMAIN db'.cache
                   /\ _calculate_hash(loc'[c].text) \notin DOMAIN disk'.cache
            /\ (_calculate_hash(loc'[c].text) \notin DOMAIN db.cache) =>
                   /\ loc'[c].provider # "none"
                   /\ sent' = {loc'[c].text}]_vars

\* C12 witness: a failed provider call has returned while the cache holds the
\* embeddings of other texts.
C12_Witness ==
    \E c \in AllCallers :
        /\ ProviderFailed(c)
        /\ Cardinality(DOMAIN db.cache) >= 2
        /\ _calculate_hash(loc[c].text) \notin DOMAIN db.cache

\* C13: a _get_embedding whose provider returned a vector of another length
\* than EMBEDDING_DIM raises to its caller and hands it no vector.
C13_DimensionMismatchRaised ==
    \A c \in AllCallers :
        ProviderBadDim(c) => (loc[c].status = "error" /\ loc[c].vectors = <<>>)

\* C14: a process_file that returns normally has stored no chunk of the file
\* with the zero vector that stands for a failed embedding.
C14_FailedEmbeddingNotSuccess ==
    \A c \in AllCallers :
        (pc[c] = "ret" /\ loc[c].op = "process_file" /\ loc[c].status = "ok") =>
            \A id \in IdsOf(db, loc[c].path) \cap DOMAIN db.vec :
                ~IsZero(Unpack(db.vec[id]))

\* the provider was called for the query in the step that led here, and the
\* cache has no embedding of the query: the call failed
QueryEmbeddingFailed ==
    /\ variant = "sqlite"
    /\ sent # {}
    /\ \A text \in sent : _calculate_hash(text) \notin DOMAIN db.cache

\* C15: a search whose query could not be embedded does not return a result
\* list; it ends in an error.
C15_SearchFailurePropagates ==
    \A c \in AllCallers :
        (pc[c] = "ret" /\ loc[c].op = "search" /\ QueryEmbeddingFailed) =>
            loc[c].status = "error"

\* a chunker has returned to caller c
ChunkerReturned(c) ==
    pc[c] = "ret" /\ loc[c].op \in {"_split_daily_markdown", "_split_text_sliding_window"}

\* first and last line of the i-th chunk returned to c
StartOf(c, i) ==
    IF loc[c].op = "_split_daily_markdown"
    THEN loc[c].chunks[i].start_line ELSE loc[c].chunks[i].start

EndOf(c, i) ==
    IF loc[c].op = "_split_daily_markdown"
    THEN loc[c].chunks[i].end_line ELSE loc[c].chunks[i].end

\* the numbers (1-based, ascending) of the header lines from line i on
RECURSIVE HeaderLinesFrom(_, _)
HeaderLinesFrom(lines, i) ==
    IF i > Len(lines) THEN <<>>
    ELSE (IF IsHeaderLine(lines[i]) THEN <<i>> ELSE <<>>) \o HeaderLinesFrom(lines, i + 1)

HeaderLines(lines) == HeaderLinesFrom(lines, 1)

\* the trimmed text before the first header line
HeaderContextOf(lines) == Strip(Join(SubSeq(lines, 1, HeaderLines(lines)[1] - 1)))

\* the lines of the file the i-th chunk spans
BlockOf(c, i) == Join(SubSeq(loc[c].text, StartOf(c, i), EndOf(c, i)))

\* C16 as stated: for a text with a header line, every chunk's content is the
\* header context, a blank line, and the chunk's block (its lines, without
\* trailing blanks).
C16_ContextBlankLineBlock ==
    \A c \in AllCallers :
        (ChunkerReturned(c) /\ HeaderLines(loc[c].text) # <<>>) =>
            \A i \in DOMAIN loc[c].chunks :
                loc[c].chunks[i].content =
                    HeaderContextOf(loc[c].text) \o <<NL, NL>> \o RStrip(BlockOf(c, i))

\* C16: for a text with a header line and a header context that is not empty,
\* every chunk's content is the header context, a blank line, and the chunk's
\* block without trailing blanks; with an empty header context the content is
\* the trimmed block alone, without the blank line.
C16_ContextPrefix ==
    \A c \in AllCallers :
        (ChunkerReturned(c) /\ HeaderLines(loc[c].text) # <<>>) =>
            \A i \in DOMAIN loc[c].chunks :
                loc[c].chunks[i].content =
                    IF HeaderContextOf(loc[c].text) # <<>>
                    THEN HeaderContextOf(loc[c].text) \o <<NL, NL>> \o RStrip(BlockOf(c, i))
                    ELSE Strip(BlockOf(c, i))

\* C16 witness: a text with a title and two header lines was split in two
\* chunks.
C16_Witness ==
    \E c \in AllCallers :
        /\ ChunkerReturned(c)
        /\ HeaderLines(loc[c].text) = <<2, 3>>
        /\ HeaderContextOf(loc[c].text) = <<"#", " ", "d">>
        /\ Len(loc[c].chunks) = 2

\* C17: for a text with n >= 1 header lines a chunker returns n chunks in file
\* order, the i-th from the i-th header line to the line before the next
\* header line (to the last line of the file for the last chunk).
C17_OneChunkPerHeader ==
    \A c \in AllCallers :
        (ChunkerReturned(c) /\ HeaderLines(loc[c].text) # <<>>) =>
            LET heads == HeaderLines(loc[c].text)
            IN  /\ Len(loc[c].chunks) = Len(heads)
                /\ \A i \in DOMAIN loc[c].chunks :
                      /\ StartOf(c, i) = heads[i]
                      /\ EndOf(c, i) = IF i < Len(heads) THEN heads[i + 1] - 1
                                       ELSE Len(loc[c].text)
                      /\ IsHeaderLine(loc[c].text[StartOf(c, i)])

\* C17 witness: a text of a header line, a body line and an indented header
\* line came back as two chunks.
C17_Witness ==
    \E c \in AllCallers :
        /\ ChunkerReturned(c)
        /\ loc[c].op = "_split_daily_markdown"
        /\ HeaderLines(loc[c].text) = <<1, 3>>
        /\ Len(loc[c].chunks) = 2

\* the text has no header line
NoHeaderLine(lines) == HeaderLines(lines) = <<>>

\* the whole file as one chunk
OneChunkOverFile(c) ==
    /\ Len(loc[c].chunks) = 1
    /\ StartOf(c, 1) = 1
    /\ EndOf(c, 1) = Len(loc[c].text)
    /\ loc[c].status = "ok"

\* C18 as stated: for a text that is not empty and has no header line a
\* chunker returns one chunk, over lines 1 to the last, and no error.
C18_NonEmptyTextOneChunk ==
    \A c \in AllCallers :
        (ChunkerReturned(c) /\ NoHeaderLine(loc[c].text) /\ Join(loc[c].text) # <<>>) =>
            OneChunkOverFile(c)

\* C18: for a text without header line that holds a character other than
\* blanks and line ends, a chunker returns one chunk, over lines 1 to the
\* last, and no error.
C18_NoHeaderOneChunk ==
    \A c \in AllCallers :
        (ChunkerReturned(c) /\ NoHeaderLine(loc[c].text)
                            /\ Strip(Join(loc[c].text)) # <<>>) =>
            OneChunkOverFile(c)

\* C18 witness: a text of three lines without header came back from
\* _split_daily_markdown.
C18_Witness ==
    \E c \in AllCallers :
        /\ ChunkerReturned(c)
        /\ loc[c].op = "_split_daily_markdown"
        /\ loc[c].text = << <<"x">>, <<>>, <<"#", " ", "d">> >>
        /\ Len(loc[c].chunks) = 1

\* C19: for the empty text and for a text of blanks and line ends only, a
\* chunker returns no chunk.
C19_BlankTextNoChunk ==
    \A c \in AllCallers :
        (ChunkerReturned(c) /\ Strip(Join(loc[c].text)) = <<>>) => loc[c].chunks = <<>>

\* the fusion step has returned to caller c
FusionReturned(c) == pc[c] = "ret" /\ loc[c].op = "fusion"

\* C20: a candidate that only the lexical query returned, the vector query
\* having returned others, gets v_score 0, and a candidate that only the
\* vector query returned, the lexical query having returned others, gets
\* f_score 0, whatever the values of the other hits.
C20_MissingModalityScoresZero ==
    \A c \in AllCallers :
        FusionReturned(c) =>
            \A rid \in DOMAIN loc[c].scores :
                /\ (rid \notin DOMAIN loc[c].vec_res /\ DOMAIN loc[c].vec_res # {}) =>
                       loc[c].scores[rid].v_score.num = 0
                /\ (rid \notin DOMAIN loc[c].fts_res /\ DOMAIN loc[c].fts_res # {}) =>
                       loc[c].scores[rid].f_score.num = 0

\* C21: with alpha = 1.0 the results are in the order of ascending vector
\* distance alone and with alpha = 0.0 in the order of ascending lexical rank
\* alone: of two results the earlier one has the lower (better) value of the
\* deciding modality, or an equal one, and a candidate absent from the
\* deciding modality never precedes one present in it.
C21_PureModalityOrder ==
    \A c \in AllCallers :
        FusionReturned(c) =>
            LET ranked == loc[c].ranked
                InOrderOf(res, first, second) ==
                    /\ first \notin DOMAIN res => second \notin DOMAIN res
                    /\ (first \in DOMAIN res /\ second \in DOMAIN res) =>
                           res[first] <= res[second]
            IN  \A i, j \in DOMAIN ranked :
                    i < j =>
                        /\ loc[c].alpha = 10 => InOrderOf(loc[c].vec_res, ranked[i], ranked[j])
                        /\ loc[c].alpha = 0 => InOrderOf(loc[c].fts_res, ranked[i], ranked[j])

\* C22: a search whose query embedding is not the zero vector returns as many
\* results as it took candidates from the head of the fused ranking, that is
\* min(limit, number of candidates): every candidate taken is resolved to a
\* chunk record.
C22_ReturnsMinLimitCandidates ==
    \A c \in AllCallers :
        (variant = "sqlite" /\ pc[c] = "ret" /\ loc[c].op = "search" /\ loc[c].status = "ok") =>
            Cardinality(loc[c].hits) = loc[c].count

\* C23: when one query returns no candidate and the other returns some, the
\* empty modality contributes 0 to every candidate: the fused score is
\* alpha * v_score when the lexical result set is empty and
\* (1 - alpha) * f_score when the vector result set is empty.
C23_EmptyModalityContributesZero ==
    \A c \in AllCallers :
        FusionReturned(c) =>
            LET vec_res == loc[c].vec_res
                fts_res == loc[c].fts_res
                alpha == loc[c].alpha
                Zero == [num |-> 0, den |-> 1]
            IN  \A rid \in DOMAIN loc[c].scores :
                    LET score == loc[c].scores[rid]
                        SameFraction(a, b) == a.num * b.den = b.num * a.den
                    IN  /\ (DOMAIN fts_res = {} /\ DOMAIN vec_res # {}) =>
                               SameFraction(score.final, Final(alpha, score.v_score, Zero))
                        /\ (DOMAIN vec_res = {} /\ DOMAIN fts_res # {}) =>
                               SameFraction(score.final, Final(alpha, Zero, score.f_score))

\* C24: chunk_id is a function of (source_path, start_line, end_line, content):
\* two reads on the same chunk give the same identifier of 64 characters, and
\* two chunks get the same identifier only if they have the same source path,
\* the same line range and the same content (hash collisions aside).
C24_ChunkIdDeterministicDistinct ==
    \A c, d \in AllCallers :
        (/\ pc[c] = "ret" /\ loc[c].op = "chunk_id"
         /\ pc[d] = "ret" /\ loc[d].op = "chunk_id") =>
            LET a == loc[c].chunks[1]
                b == loc[d].chunks[1]
            IN  /\ loc[c].id[1] = loc[c].id[2]
                /\ loc[c].id[1].len = 64
                /\ loc[c].id[1] = loc[d].id[1] <=>
                       /\ a.source_path = b.source_path
                       /\ a.start_line = b.start_line
                       /\ a.end_line = b.end_line
                       /\ a.content = b.content

\* the identifiers of ("m1", 11, 11) and ("m11", 1, 11), whose fields written
\* one after the other give the same characters, have been read and differ
C24_Witness ==
    /\ pc[1] = "ret" /\ loc[1].op = "chunk_id"
    /\ pc[2] = "ret" /\ loc[2].op = "chunk_id"
    /\ loc[1].chunks[1].source_path = "m1" /\ loc[2].chunks[1].source_path = "m11"
    /\ loc[1].chunks[1].start_line = 11 /\ loc[2].chunks[1].start_line = 1
    /\ loc[1].chunks[1].end_line = 11 /\ loc[2].chunks[1].end_line = 11
    /\ loc[1].chunks[1].content = loc[2].chunks[1].content
    /\ loc[1].id[1] # loc[2].id[1]

\* C25: a search changes no row of the Chunk Store, the Vector Index or the
\* Lexical Index that is durable and visible to other readers: the committed
\* rows of chunks, chunks_vec and chunks_fts, and the rows of the Milvus
\* collection, are the same after the search as before it, also when an
\* earlier index_file failed partway.
C25_SearchChangesNoStore ==
    [][\A c \in AllCallers :
          (pc[c] = "idle" /\ pc'[c] = "ret" /\ loc'[c].op = "search") =>
              /\ disk'.chunks = disk.chunks
              /\ disk'.vec = disk.vec
              /\ disk'.fts = disk.fts
              /\ coll' = coll]_vars

\* C26: for a text with at least one header line the chunks' line ranges are
\* 1-based and inclusive with start <= end, and tile the file from its first
\* header line to its last line: the first chunk starts at the first header
\* line, each next chunk starts on the line after the previous chunk's last
\* line, and the last chunk ends at the last line of the file.
C26_RangesTileFromFirstHeader ==
    \A c \in AllCallers :
        (ChunkerReturned(c) /\ HeaderLines(loc[c].text) # <<>>) =>
            LET n == Len(loc[c].chunks)
            IN  /\ n >= 1
                /\ StartOf(c, 1) = HeaderLines(loc[c].text)[1]
                /\ EndOf(c, n) = Len(loc[c].text)
                /\ \A i \in 1..n :
                      /\ 1 <= StartOf(c, i)
                      /\ StartOf(c, i) <= EndOf(c, i)
                      /\ EndOf(c, i) <= Len(loc[c].text)
                      /\ i < n => StartOf(c, i + 1) = EndOf(c, i) + 1

\* C26 witness: a chunker has split a text whose first line is not a
\* header line and whose second and third lines are, into the ranges 2..2
\* and 3..3.
C26_Witness ==
    /\ ChunkerReturned(1)
    /\ HeaderLines(loc[1].text) = <<2, 3>>
    /\ Len(loc[1].chunks) = 2
    /\ StartOf(1, 1) = 2 /\ EndOf(1, 1) = 2
    /\ StartOf(1, 2) = 3 /\ EndOf(1, 2) = 3

\* C27: index_file (process_file) on a text whose chunking yields no
\* non-empty chunk requests no embedding and writes no row, and returns
\* without error with a chunk count of 0, no row previously stored for the
\* path being left in the Chunk Store, the Vector Index or the Lexical Index.
C27_NoChunkIsNotAnError ==
    \A c \in AllCallers :
        LET split == _split_text_sliding_window(loc[c].text)
            no_chunk ==
                IF variant = "milvus"
                THEN /\ loc[c].op = "index_file"
                     /\ _split_daily_markdown(loc[c].path, loc[c].text) = <<>>
                ELSE /\ loc[c].op = "process_file"
                     /\ \A i \in DOMAIN split : Strip(split[i].content) = <<>>
        IN  no_chunk =>
                /\ pc[c] \notin {"if_embed", "if_insert", "pf_write"}
                /\ pc[c] = "ret" =>
                      /\ loc[c].status = "ok"
                      /\ loc[c].count = 0
                      /\ IF variant = "milvus"
                         THEN PathRows(coll, loc[c].path) = EmptyBag
                         ELSE /\ IdsOf(db, loc[c].path) = {}
                              /\ loc[c].old_ids \cap DOMAIN db.vec = {}
                              /\ loc[c].old_ids \cap DOMAIN db.fts = {}

\* C28: _iter_daily_files returns exactly the regular files of the daily
\* directory whose name is four digits, "-", two digits, "-", two digits,
\* ".md", in ascending order of name, each once: "note.md", "2026-2-9.md"
\* and subdirectories are left out.
C28_DailyFilesByPatternInOrder ==
    \A c \in AllCallers :
        (pc[c] = "ret" /\ loc[c].op = "_iter_daily_files") =>
            LET regular == {name \in DOMAIN files : files[name] # IsADirectory}
            IN  /\ Range(loc[c].todo) = regular \cap {"2026-02-09.md", "2026-02-10.md"}
                /\ Len(loc[c].todo) = Cardinality(Range(loc[c].todo))
                /\ \A i, j \in DOMAIN loc[c].todo :
                      i < j => (loc[c].todo[i] = "2026-02-09.md"
                                /\ loc[c].todo[j] = "2026-02-10.md")

\* C28 witness: the directory of the test (files of the two dates, "note.md"
\* and "2026-2-9.md") has been listed as the two dates, earlier date first
C28_Witness ==
    /\ pc[1] = "ret" /\ loc[1].op = "_iter_daily_files"
    /\ DOMAIN files = {"2026-02-09.md", "2026-02-10.md", "note.md", "2026-2-9.md"}
    /\ \A name \in DOMAIN files : files[name] # IsADirectory
    /\ loc[1].todo = <<"2026-02-09.md", "2026-02-10.md">>

\* C29: a step of index_file (process_file) on a path P changes no row of
\* another path Q, whether the call goes on to succeed or to fail: the rows
\* of Q in the collection, and in chunks, chunks_vec and chunks_fts as the
\* store's connection reads them, are the same after the step as before it.
C29_OnlyRowsOfThePath ==
    [][\A c \in AllCallers :
          pc[c] \in IndexFilePcs \cup {"pf_clean", "pf_chunk", "pf_write", "pf_commit"} =>
              \A Q \in DirNames \ {loc[c].path} :
                  /\ PathRows(coll', Q) = PathRows(coll, Q)
                  /\ {r \in db'.chunks : r.file_path = Q} = {r \in db.chunks : r.file_path = Q}
                  /\ IdsOf(db, Q) \cap DOMAIN db'.vec = IdsOf(db, Q) \cap DOMAIN db.vec
                  /\ IdsOf(db, Q) \cap DOMAIN db'.fts = IdsOf(db, Q) \cap DOMAIN db.fts
                  /\ \A id \in IdsOf(db, Q) :
                        /\ id \in DOMAIN db.vec => db'.vec[id] = db.vec[id]
                        /\ id \in DOMAIN db.fts => db'.fts[id] = db.fts[id]]_vars

\* C29 witness: a process_file on one path has ended with an exception after
\* it wrote a row of its path, while rows of another path are stored.
C29_Witness ==
    \E c \in AllCallers :
        /\ pc[c] = "ret"
        /\ loc[c].op = "process_file"
        /\ loc[c].status = "error"
        /\ IdsOf(db, loc[c].path) # {}
        /\ \E Q \in DirNames \ {loc[c].path} : IdsOf(db, Q) # {}

\* C30: in the SQLite variant no row identifier is handed out twice: every id
\* of a row of chunks, chunks_fts or chunks_vec is at most the last id handed
\* out, so the next one is the id of no row, left behind or not. Hence a row
\* of chunks_fts or chunks_vec whose id is in chunks was written for that
\* chunk's content, and every result of a search is the record (source, line
\* range, content preview) of a row now in chunks.
C30_RowIdsNeverReused ==
    variant = "sqlite" =>
        /\ \A r, q \in db.chunks : r.id = q.id => r = q
        /\ \A id \in {r.id : r \in db.chunks} \cup DOMAIN db.fts \cup DOMAIN db.vec :
              id <= db.seq
        /\ \A r \in db.chunks :
              /\ r.id \in DOMAIN db.fts => db.fts[r.id] = r.content
              /\ r.id \in DOMAIN db.vec =>
                    \/ Unpack(db.vec[r.id]).val = ProviderVector(r.content, "ok").val
                    \/ IsZero(Unpack(db.vec[r.id]))
        /\ \A c \in AllCallers :
              (pc[c] = "ret" /\ loc[c].op = "search") =>
                  loc[c].hits \subseteq Resolve(db, {r.id : r \in db.chunks})

\* C30 witness: after a reindex a search has returned a chunk while the
\* Lexical Index holds a row, of a lower id, whose chunk is gone.
C30_Witness ==
    \E c \in AllCallers :
        /\ variant = "sqlite"
        /\ pc[c] = "ret" /\ loc[c].op = "search"
        /\ loc[c].hits # {}
        /\ \E old \in DOMAIN db.fts, r \in db.chunks :
              /\ old \notin {q.id : q \in db.chunks}
              /\ old < r.id
              /\ db.fts[old] # r.content
====
